---- MODULE Spec2Model ----
(***************************************************************************)
(* Code2MarkDown: project discovery, analysis, tree rendering, safe file   *)
(* reading and the orchestration performed by main().                      *)
(*                                                                         *)
(* Names are strings.  A path is a sequence of names relative to the       *)
(* input root (<<>> is the input root itself).  A file system is a set of  *)
(* entries [path, dir, link, size, text, mtime], closed under parents; a   *)
(* symbolic link to a directory is a directory entry with link = TRUE,     *)
(* and what it points to appears as its children.                          *)
(***************************************************************************)
EXTENDS Integers, Sequences, FiniteSets, TLC

VARIABLES
    fs,             \* the directory tree below the input root
    locked,         \* directories whose listing raises PermissionError
    enum,           \* order in which the OS enumerates directory entries
    root_exists,    \* whether the input root (cwd / code_base_dir) exists
    pc,             \* position of main()
    projects,       \* convert_all_projects: the discovered project paths
    calls,          \* convert_project calls made so far, in order
    results,        \* what each call returned ("true" / "false") or raised
    success_count,  \* convert_all_projects: success_count
    total_count,    \* convert_all_projects: total_count
    output,         \* output directory: file name -> document
    index,          \* INDEX.md: whether it was written, and its links
    abort,          \* why main() left through an except clause, or "none"
    exit_code,      \* -1 while running, then the value main() returns
    config,         \* the Config the converter was created with
    clock,          \* what datetime.now() returns next
    fn              \* a single function applied to the tree: call and result

vars == <<fs, locked, enum, root_exists, pc, projects, calls, results,
          success_count, total_count, output, index, abort, exit_code,
          config, clock, fn>>

-----------------------------------------------------------------------------
(* Bounds *)

MaxEntries == 5
MaxLocked == 1
MaxProjectEntries == 5
MaxDepth == 3

-----------------------------------------------------------------------------
(* Strings *)

\* the characters that occur in names, in code point order
Chars == "*.0123456789?ABCDEFGHIJKLMNOPQRSTUVWXYZ_abcdefghijklmnopqrstuvwxyz"
UpperChars == "ABCDEFGHIJKLMNOPQRSTUVWXYZ"
LowerChars == "abcdefghijklmnopqrstuvwxyz"
Digits == "0123456789"

CharAt(s, i) == SubSeq(s, i, i)

IndexIn(c, s) ==
    IF \E i \in 1..Len(s) : CharAt(s, i) = c
    THEN CHOOSE i \in 1..Len(s) : CharAt(s, i) = c
    ELSE 0

Ord(c) == IndexIn(c, Chars)

LowerChar(c) ==
    LET i == IndexIn(c, UpperChars)
    IN  IF i = 0 THEN c ELSE CharAt(LowerChars, i)

RECURSIVE lower(_)
lower(s) == IF s = "" THEN "" ELSE LowerChar(Head(s)) \o lower(Tail(s))

\* Python's < on str: code point order, a proper prefix is smaller
RECURSIVE StrLess(_, _)
StrLess(a, b) ==
    IF b = "" THEN FALSE
    ELSE IF a = "" THEN TRUE
    ELSE IF Head(a) = Head(b) THEN StrLess(Tail(a), Tail(b))
    ELSE Ord(Head(a)) < Ord(Head(b))

startswith(s, p) == Len(p) <= Len(s) /\ SubSeq(s, 1, Len(p)) = p

IsDigit(c) == IndexIn(c, Digits) # 0

\* str.rfind('.'), 1-based; 0 when there is no dot
rfind_dot(s) ==
    IF \E i \in 1..Len(s) : CharAt(s, i) = "."
    THEN CHOOSE i \in 1..Len(s) :
            /\ CharAt(s, i) = "."
            /\ \A j \in (i+1)..Len(s) : CharAt(s, j) # "."
    ELSE 0

\* PurePath.suffix
suffix(name) ==
    LET i == rfind_dot(name)
    IN  IF 1 < i /\ i < Len(name) THEN SubSeq(name, i, Len(name)) ELSE ""

\* fnmatch.fnmatch(name, pat) for patterns made of literals, '*' and '?'
RECURSIVE fnmatch(_, _)
fnmatch(name, pat) ==
    IF pat = "" THEN name = ""
    ELSE IF Head(pat) = "*"
         THEN \/ fnmatch(name, Tail(pat))
              \/ name # "" /\ fnmatch(Tail(name), pat)
    ELSE IF name = "" THEN FALSE
    ELSE IF Head(pat) = "?" THEN fnmatch(Tail(name), Tail(pat))
    ELSE Head(pat) = Head(name) /\ fnmatch(Tail(name), Tail(pat))

-----------------------------------------------------------------------------
(* Configuration: Config.__post_init__ defaults *)

code_base_dir == "Code"
markdown_base_dir == "Markdown"

code_extensions ==
    {".c", ".h", ".cpp", ".hpp", ".cc", ".cxx",
     ".py", ".java", ".js", ".ts", ".cs",
     ".go", ".rs", ".php", ".rb", ".swift",
     ".kt", ".scala", ".clj", ".hs", ".ml",
     ".asm", ".s", ".a51"}

project_extensions ==
    {".uvproj", ".uvopt", ".uvgui", ".sln", ".vcxproj",
     ".pro", ".qbs", ".cmake", ".mk", ".makefile",
     ".json", ".xml", ".yml", ".yaml", ".toml",
     ".cfg", ".conf", ".ini"}

ignore_files ==
    {".DS_Store", "Thumbs.db", ".gitignore",
     "__pycache__", "*.pyc", "*.pyo", "*.pyd",
     ".vscode", ".idea", ".vs"}

ignore_dirs ==
    {"__pycache__", ".git", ".svn", ".hg",
     "node_modules", ".vscode", ".idea", ".vs",
     "bin", "obj", "build", "dist", "target"}

header_extensions == {".h", ".hpp", ".hh"}

\* Path.cwd(): the converter's root_path, as path parts
Cwd == <<"/", "srv", "work">>

-----------------------------------------------------------------------------
(* Paths and the file system *)

Name(p) == p[Len(p)]
Parent(p) == SubSeq(p, 1, Len(p) - 1)
IsPrefix(p, q) == Len(p) <= Len(q) /\ SubSeq(q, 1, Len(p)) = p

Paths(tree) == {e.path : e \in tree}
Entry(tree, p) == CHOOSE e \in tree : e.path = p
is_dir(tree, p) == p = <<>> \/ \E e \in tree : e.path = p /\ e.dir
is_file(tree, p) == \E e \in tree : e.path = p /\ ~e.dir
is_symlink(tree, p) == \E e \in tree : e.path = p /\ e.link

Children(tree, p) == {q \in Paths(tree) : Len(q) = Len(p) + 1 /\ IsPrefix(p, q)}

\* a set of paths with distinct names, as a sequence in ascending name order
RECURSIVE SortedByName(_)
SortedByName(S) ==
    IF S = {} THEN <<>>
    ELSE LET m == CHOOSE x \in S : \A y \in S \ {x} : StrLess(Name(x), Name(y))
         IN  <<m>> \o SortedByName(S \ {m})

Reverse(s) == [i \in 1..Len(s) |-> s[Len(s) + 1 - i]]

\* the order in which the OS hands out the entries of directory p
Listing(tree, order, p) ==
    IF order = "asc" THEN SortedByName(Children(tree, p))
    ELSE Reverse(SortedByName(Children(tree, p)))

\* Path.stat().st_size through get_file_info
get_file_size(tree, p) == Entry(tree, p).size

should_ignore_file(name, patterns) == \E pat \in patterns : fnmatch(name, pat)

should_ignore_dir(name, patterns) == name \in patterns

\* Path.rglob('*') from p: every entry below p; directories that cannot be
\* listed are skipped silently (pathlib swallows PermissionError while
\* scanning) and the walk does not descend through symbolic links; entries
\* of a directory first, then its subdirectories in turn
RECURSIVE rglob(_, _, _, _)
RECURSIVE rglob_subdirs(_, _, _, _, _)
rglob(tree, lck, order, p) ==
    IF p \in lck THEN <<>>
    ELSE LET here == Listing(tree, order, p)
         IN  here \o rglob_subdirs(tree, lck, order, here, 1)
rglob_subdirs(tree, lck, order, here, i) ==
    IF i > Len(here) THEN <<>>
    ELSE (IF is_dir(tree, here[i]) /\ ~is_symlink(tree, here[i])
          THEN rglob(tree, lck, order, here[i]) ELSE <<>>)
         \o rglob_subdirs(tree, lck, order, here, i + 1)

-----------------------------------------------------------------------------
(* Project classifier: Code2MarkdownConverter *)

Ok(v) == [err |-> FALSE, val |-> v]
Raise == [err |-> TRUE, val |-> <<>>]

\* _is_project_directory: the scan returns True at the first file whose
\* extension is a code or a project extension
RECURSIVE is_project_scan(_, _, _)
is_project_scan(tree, items, i) ==
    IF i > Len(items) THEN FALSE
    ELSE IF is_file(tree, items[i])
            /\ LET ext == lower(suffix(Name(items[i])))
               IN  ext \in code_extensions \/ ext \in project_extensions
         THEN TRUE
    ELSE is_project_scan(tree, items, i + 1)

_is_project_directory(tree, lck, order, p) ==
    is_project_scan(tree, rglob(tree, lck, order, p), 1)

\* _find_project_directories: base_dir itself, or else the project
\* directories found below it; base_dir.iterdir() is not guarded, so a
\* directory that cannot be listed raises out of the search
RECURSIVE _find_project_directories(_, _, _, _)
RECURSIVE find_in_subdirs(_, _, _, _, _, _)
_find_project_directories(tree, lck, order, base_dir) ==
    IF _is_project_directory(tree, lck, order, base_dir) THEN Ok(<<base_dir>>)
    ELSE IF base_dir \in lck THEN Raise
    ELSE find_in_subdirs(tree, lck, order, Listing(tree, order, base_dir), 1, <<>>)
find_in_subdirs(tree, lck, order, subdirs, i, project_dirs) ==
    IF i > Len(subdirs) THEN Ok(project_dirs)
    ELSE LET subdir == subdirs[i]
         IN  IF is_dir(tree, subdir) /\ ~should_ignore_dir(Name(subdir), ignore_dirs)
             THEN IF _is_project_directory(tree, lck, order, subdir)
                  THEN find_in_subdirs(tree, lck, order, subdirs, i + 1,
                                       Append(project_dirs, subdir))
                  ELSE LET sub_projects ==
                               _find_project_directories(tree, lck, order, subdir)
                       IN  IF sub_projects.err THEN Raise
                           ELSE find_in_subdirs(tree, lck, order, subdirs, i + 1,
                                                project_dirs \o sub_projects.val)
             ELSE find_in_subdirs(tree, lck, order, subdirs, i + 1, project_dirs)

\* discover_projects, the input root exists
RECURSIVE discover_loop(_, _, _, _, _, _)
discover_loop(tree, lck, order, items, i, found) ==
    IF i > Len(items) THEN Ok(found)
    ELSE LET item == items[i]
         IN  IF is_dir(tree, item) /\ ~should_ignore_dir(Name(item), ignore_dirs)
             THEN LET project_dirs ==
                          _find_project_directories(tree, lck, order, item)
                  IN  IF project_dirs.err THEN Raise
                      ELSE discover_loop(tree, lck, order, items, i + 1,
                                         found \o project_dirs.val)
             ELSE discover_loop(tree, lck, order, items, i + 1, found)

discover_projects(tree, lck, order) ==
    IF <<>> \in lck THEN Raise
    ELSE discover_loop(tree, lck, order, Listing(tree, order, <<>>), 1, <<>>)

-----------------------------------------------------------------------------
(* Project names: utils.py *)

\* the parts of the absolute path of the entry at relative path p
Parts(p) == Cwd \o <<code_base_dir>> \o p

RECURSIVE meaningful_parts(_, _, _)
meaningful_parts(parts, i, acc) ==
    IF i < 1 THEN acc
    ELSE LET part == parts[i]
             acc2 == IF ~startswith(part, ".") /\ part \notin {"Code", "Markdown"}
                     THEN Append(acc, part) ELSE acc
         IN  IF Len(acc2) >= 2 THEN acc2
             ELSE meaningful_parts(parts, i - 1, acc2)

extract_project_name_from_path(parts) ==
    LET m == meaningful_parts(parts, Len(parts), <<>>)
    IN  IF m # <<>> THEN m[1] ELSE parts[Len(parts)]

\* re.sub(r'_\d{8}$', '', name)
normalize_project_name(name) ==
    LET n == Len(name)
    IN  IF /\ n >= 9
           /\ CharAt(name, n - 8) = "_"
           /\ \A j \in (n - 7)..n : IsDigit(CharAt(name, j))
        THEN SubSeq(name, 1, n - 9)
        ELSE name

-----------------------------------------------------------------------------
(* File analyzer: analyze_project *)

NoStats == [code_files |-> 0, header_files |-> 0, project_files |-> 0,
            other_files |-> 0, total_size |-> 0]

\* Classify without the header extensions
Classify_NoHeaders(ext) ==
    IF ext \in code_extensions THEN "code_files"
    ELSE IF ext \in project_extensions THEN "project_files"
    ELSE "other_files"

Classify(ext) ==
    IF ext \in code_extensions
    THEN IF ext \in header_extensions THEN "header_files" ELSE "code_files"
    ELSE IF ext \in project_extensions THEN "project_files"
    ELSE "other_files"

RECURSIVE analyze_loop(_, _, _, _)
analyze_loop(tree, items, i, stats) ==
    IF i > Len(items) THEN stats
    ELSE LET item == items[i]
         IN  IF is_file(tree, item) /\ ~should_ignore_file(Name(item), ignore_files)
             THEN LET bucket == Classify(lower(suffix(Name(item))))
                      sized == [stats EXCEPT !.total_size = @ + get_file_size(tree, item)]
                  IN  analyze_loop(tree, items, i + 1,
                                   [sized EXCEPT ![bucket] = @ + 1])
             ELSE analyze_loop(tree, items, i + 1, stats)

analyze_project(tree, lck, order, project_path, now) ==
    LET stats == analyze_loop(tree, rglob(tree, lck, order, project_path), 1, NoStats)
        project_name == extract_project_name_from_path(Parts(project_path))
        normalized_name == normalize_project_name(project_name)
    IN  [name |-> project_name,
         source_path |-> project_path,
         target_path |-> Cwd \o <<markdown_base_dir, normalized_name \o ".md">>,
         generated_time |-> now,
         stats |-> stats]

-----------------------------------------------------------------------------
(* utils.py: sizes and the content reader *)

Pow1024(k) == IF k = 0 THEN 1 ELSE IF k = 1 THEN 1024
              ELSE IF k = 2 THEN 1024 * 1024 ELSE 1024 * 1024 * 1024

size_names == <<"B", "KB", "MB", "GB">>

\* the number of times the loop divides by 1024.0
RECURSIVE size_unit(_, _)
size_unit(size_bytes, i) ==
    IF size_bytes >= Pow1024(i + 1) /\ i < Len(size_names) - 1
    THEN size_unit(size_bytes, i + 1)
    ELSE i

\* f"{size:.1f}": the quotient is an exact binary fraction, printed to one
\* decimal, ties to the even digit (the sizes used here keep num * 10
\* within the integers of the checker)
one_decimal(num, den) ==
    LET t == (num * 10) \div den
        r == (num * 10) % den
        tenths == IF 2 * r > den \/ (2 * r = den /\ t % 2 = 1) THEN t + 1 ELSE t
    IN  ToString(tenths \div 10) \o "." \o ToString(tenths % 10)

format_file_size(size_bytes) ==
    IF size_bytes = 0 THEN "0 B"
    ELSE LET i == size_unit(size_bytes, 0)
         IN  IF i = 0 THEN ToString(size_bytes) \o " " \o size_names[i + 1]
             ELSE one_decimal(size_bytes, Pow1024(i)) \o " " \o size_names[i + 1]

\* clean_text_content: control characters are removed (tab, newline and
\* carriage return stay).  The replacement table's keys are non-ASCII
\* sequences, which do not occur in the texts modelled here.
IsControl(c) == c = "\f"

RECURSIVE strip_controls(_)
strip_controls(s) ==
    IF s = "" THEN ""
    ELSE IF IsControl(Head(s)) THEN strip_controls(Tail(s))
    ELSE Head(s) \o strip_controls(Tail(s))

clean_text_content(content) ==
    IF content = "" THEN content ELSE strip_controls(content)

encodings == <<"utf-8", "gbk", "gb2312", "utf-16", "latin1">>

\* read_file_safely.  f describes the file as the OS presents it:
\*   size, stat_ok (stat() works), open_ok (open() works),
\*   enc (index of the first encoding that decodes the bytes strictly,
\*        Len(encodings) + 1 when none does), text (the decoded characters).
\* The result records the returned string, the number of open() calls and
\* whether an exception left the function.
\* read_file_safely with the size compared by >=
read_file_safely_AtLimit(f, max_size) ==
    LET info_size == IF f.stat_ok THEN f.size ELSE 0
    IN  IF info_size >= max_size
        THEN [ret |-> "[file too large (" \o format_file_size(info_size)
                        \o "), content skipped]",
              opens |-> 0, raised |-> FALSE]
        ELSE IF ~f.open_ok
        THEN [ret |-> "[cannot read file: Permission denied]",
              opens |-> 1, raised |-> FALSE]
        ELSE [ret |-> clean_text_content(f.text),
              opens |-> f.enc, raised |-> FALSE]

read_file_safely(f, max_size) ==
    LET info_size == IF f.stat_ok THEN f.size ELSE 0
    IN  IF info_size > max_size
        THEN [ret |-> "[file too large (" \o format_file_size(info_size)
                        \o "), content skipped]",
              opens |-> 0, raised |-> FALSE]
        ELSE IF ~f.open_ok
        THEN [ret |-> "[cannot read file: Permission denied]",
              opens |-> 1, raised |-> FALSE]
        ELSE [ret |-> clean_text_content(f.text),
              opens |-> f.enc, raised |-> FALSE]

-----------------------------------------------------------------------------
(* utils.py: the tree renderer *)

\* A rendered line is the sequence of its pieces: the child prefixes of the
\* enclosing directories, then the connector and the label, or a marker.
\* The box-drawing glyphs are written with their ASCII look-alikes.
ConnLast == "+-- "
ConnMid == "|-- "
PrefixLast == "    "
PrefixMid == "|   "
TruncatedMarker == "[directory too deep, truncated]"
InaccessibleMarker == "[cannot access directory]"

\* KeyLess on the names as they are, without lower()
KeyLess_CaseSensitive(a, b) ==
    \/ a.is_dir /\ ~b.is_dir
    \/ a.is_dir = b.is_dir /\ StrLess(Name(a.item), Name(b.item))

\* the sort key (not is_dir, name.lower()) compared
KeyLess(a, b) ==
    \/ a.is_dir /\ ~b.is_dir
    \/ a.is_dir = b.is_dir /\ StrLess(lower(Name(a.item)), lower(Name(b.item)))

\* list.sort is stable: x goes behind every element that is not greater
RECURSIVE InsertSorted(_, _)
InsertSorted(sorted, x) ==
    IF sorted = <<>> THEN <<x>>
    ELSE IF KeyLess(x, Head(sorted)) THEN <<x>> \o sorted
    ELSE <<Head(sorted)>> \o InsertSorted(Tail(sorted), x)

RECURSIVE tree_sort(_, _, _)
tree_sort(items, i, sorted) ==
    IF i > Len(items) THEN sorted
    ELSE tree_sort(items, i + 1, InsertSorted(sorted, items[i]))

\* the loop over root_path.iterdir() that fills items
RECURSIVE tree_items(_, _, _, _)
tree_items(tree, listing, i, items) ==
    IF i > Len(listing) THEN items
    ELSE LET item == listing[i]
         IN  IF is_dir(tree, item) /\ ~should_ignore_dir(Name(item), ignore_dirs)
             THEN tree_items(tree, listing, i + 1,
                             Append(items, [item |-> item, is_dir |-> TRUE]))
             ELSE IF is_file(tree, item)
                     /\ ~should_ignore_file(Name(item), ignore_files)
             THEN tree_items(tree, listing, i + 1,
                             Append(items, [item |-> item, is_dir |-> FALSE]))
             ELSE tree_items(tree, listing, i + 1, items)

PrefixAll(prefix, lines) == [k \in 1..Len(lines) |-> <<prefix>> \o lines[k]]

RECURSIVE generate_tree_structure(_, _, _, _, _, _)
RECURSIVE tree_render(_, _, _, _, _, _, _)
generate_tree_structure(tree, lck, order, root_path, max_depth, current_depth) ==
    IF current_depth >= max_depth THEN << <<TruncatedMarker>> >>
    ELSE IF root_path \in lck THEN << <<InaccessibleMarker>> >>
    ELSE LET items == IF is_dir(tree, root_path)
                      THEN tree_items(tree, Listing(tree, order, root_path), 1, <<>>)
                      ELSE <<>>
         IN  tree_render(tree, lck, order, tree_sort(items, 1, <<>>), 1,
                         max_depth, current_depth)
tree_render(tree, lck, order, items, i, max_depth, current_depth) ==
    IF i > Len(items) THEN <<>>
    ELSE LET item == items[i].item
             is_last == i = Len(items)
             prefix == IF is_last THEN ConnLast ELSE ConnMid
             child_prefix == IF is_last THEN PrefixLast ELSE PrefixMid
             rest == tree_render(tree, lck, order, items, i + 1,
                                 max_depth, current_depth)
         IN  IF items[i].is_dir
             THEN << <<prefix, Name(item) \o "/">> >>
                  \o PrefixAll(child_prefix,
                               generate_tree_structure(tree, lck, order, item,
                                                       max_depth, current_depth + 1))
                  \o rest
             ELSE << <<prefix, Name(item)>> >> \o rest

-----------------------------------------------------------------------------
(* Document renderer *)

LANGUAGE_MAPPING ==
    [ext \in code_extensions |->
        CASE ext \in {".c", ".h"} -> "c"
          [] ext \in {".cpp", ".hpp", ".cc", ".cxx"} -> "cpp"
          [] ext = ".py" -> "python"
          [] ext = ".java" -> "java"
          [] ext = ".js" -> "javascript"
          [] ext = ".ts" -> "typescript"
          [] ext = ".cs" -> "csharp"
          [] ext = ".go" -> "go"
          [] ext = ".rs" -> "rust"
          [] ext = ".php" -> "php"
          [] ext = ".rb" -> "ruby"
          [] ext = ".swift" -> "swift"
          [] ext = ".kt" -> "kotlin"
          [] ext = ".scala" -> "scala"
          [] ext = ".clj" -> "clojure"
          [] ext = ".hs" -> "haskell"
          [] ext = ".ml" -> "ocaml"
          [] OTHER -> "assembly"]

get_language_for_extension(ext) ==
    IF lower(ext) \in DOMAIN LANGUAGE_MAPPING THEN LANGUAGE_MAPPING[lower(ext)]
    ELSE "text"

UpperChar(c) ==
    LET i == IndexIn(c, LowerChars)
    IN  IF i = 0 THEN c ELSE CharAt(UpperChars, i)

RECURSIVE upper(_)
upper(s) == IF s = "" THEN "" ELSE UpperChar(Head(s)) \o upper(Tail(s))

\* the file at path p as the OS presents it to read_file_safely
FileView(tree, lck, p) ==
    [size |-> Entry(tree, p).size, stat_ok |-> TRUE, open_ok |-> p \notin lck,
     enc |-> 1, text |-> Entry(tree, p).text]

\* str(file_path.relative_to(project_root))
RECURSIVE JoinPath(_)
JoinPath(parts) ==
    IF parts = <<>> THEN "."
    ELSE IF Len(parts) = 1 THEN parts[1]
    ELSE parts[1] \o "/" \o JoinPath(Tail(parts))

relative_to(file_path, project_root) ==
    SubSeq(file_path, Len(project_root) + 1, Len(file_path))

\* (Markdown's backquote is written ^ in the strings of this module)
_generate_file_section(tree, lck, cfg, file_path, project_root) ==
    LET name == Name(file_path)
        content == read_file_safely(FileView(tree, lck, file_path),
                                    cfg.max_file_size).ret
        language == get_language_for_extension(suffix(name))
    IN  << "## " \o name,
           "",
           "**File path**: ^" \o JoinPath(relative_to(file_path, project_root)) \o "^  ",
           "**File type**: " \o upper(language) \o "  ",
           "**File size**: " \o format_file_size(get_file_size(tree, file_path)) \o "  ",
           "**Last modified**: " \o ToString(Entry(tree, file_path).mtime) \o "  ",
           "" >>
        \o (IF content # ""
            THEN << "### File content", "", "^^^" \o language, content, "^^^", "" >>
            ELSE <<>>)

\* the loop that collects the code files
RECURSIVE collect_code_files(_, _, _, _)
collect_code_files(tree, items, i, code_files) ==
    IF i > Len(items) THEN code_files
    ELSE LET item == items[i]
         IN  IF /\ is_file(tree, item)
                /\ lower(suffix(Name(item))) \in code_extensions
                /\ ~should_ignore_file(Name(item), ignore_files)
             THEN collect_code_files(tree, items, i + 1, Append(code_files, item))
             ELSE collect_code_files(tree, items, i + 1, code_files)

\* code_files.sort(key=lambda x: x.name.lower()), a stable sort
RECURSIVE InsertByName(_, _)
InsertByName(sorted, x) ==
    IF sorted = <<>> THEN <<x>>
    ELSE IF StrLess(lower(Name(x)), lower(Name(Head(sorted)))) THEN <<x>> \o sorted
    ELSE <<Head(sorted)>> \o InsertByName(Tail(sorted), x)

RECURSIVE sort_by_name(_, _, _)
sort_by_name(items, i, sorted) ==
    IF i > Len(items) THEN sorted
    ELSE sort_by_name(items, i + 1, InsertByName(sorted, items[i]))

\* the code files of the project in the order of their subsections
section_files(tree, lck, order, project_path) ==
    sort_by_name(collect_code_files(tree, rglob(tree, lck, order, project_path),
                                    1, <<>>),
                 1, <<>>)

RECURSIVE sections_of(_, _, _, _, _, _)
sections_of(tree, lck, cfg, files, i, project_path) ==
    IF i > Len(files) THEN <<>>
    ELSE _generate_file_section(tree, lck, cfg, files[i], project_path)
         \o sections_of(tree, lck, cfg, files, i + 1, project_path)

_generate_file_sections(tree, lck, order, cfg, project_path) ==
    sections_of(tree, lck, cfg, section_files(tree, lck, order, project_path),
                1, project_path)

\* "".join of the pieces of a tree line
RECURSIVE Render(_)
Render(line) == IF line = <<>> THEN "" ELSE Head(line) \o Render(Tail(line))

RenderAll(lines) == [k \in 1..Len(lines) |-> Render(lines[k])]

\* generate_tree_structure's default max_depth
DefaultMaxDepth == 10

_generate_markdown(tree, lck, order, cfg, project_info) ==
    LET tree_lines == generate_tree_structure(tree, lck, order,
                          project_info.source_path, DefaultMaxDepth, 0)
    IN  << "# " \o project_info.name,
           "",
           "## Project info",
           "- **Project name**: " \o project_info.name,
           "- **Generated**: " \o ToString(project_info.generated_time),
           "- **Project path**: ^" \o JoinPath(Parts(project_info.source_path)) \o "^",
           "" >>
        \o (IF cfg.include_project_structure
            THEN << "## Project structure", "", "^^^" >>
                 \o (IF tree_lines # <<>>
                     THEN << project_info.name \o "/" >> \o RenderAll(tree_lines)
                     ELSE <<>>)
                 \o << "^^^", "" >>
            ELSE <<>>)
        \o (IF cfg.include_file_stats
            THEN << "## File statistics",
                    "- Source files: " \o ToString(project_info.stats.code_files),
                    "- Header files: " \o ToString(project_info.stats.header_files),
                    "- Project files: " \o ToString(project_info.stats.project_files),
                    "- Other files: " \o ToString(project_info.stats.other_files),
                    "" >>
            ELSE <<>>)
        \o (IF cfg.include_file_content
            THEN _generate_file_sections(tree, lck, order, cfg,
                                         project_info.source_path)
            ELSE <<>>)

-----------------------------------------------------------------------------
(* Orchestrator *)

\* what can happen inside one convert_project call: nothing, an Exception
\* raised by the analysis, the rendering or the write, or Ctrl-C
Outcomes == {"ok", "analyze", "render", "write", "interrupt"}

\* convert_project without the except clause
convert_project_Uncaught(tree, lck, order, cfg, out, project_path, outcome, now) ==
    LET project_info == analyze_project(tree, lck, order, project_path, now)
        markdown_content == _generate_markdown(tree, lck, order, cfg, project_info)
        file_name == Name(project_info.target_path)
        written == [n \in DOMAIN out \cup {file_name} |->
                       IF n = file_name
                       THEN [source_path |-> project_path,
                             lines |-> markdown_content]
                       ELSE out[n]]
    IN  IF outcome = "interrupt" THEN [ret |-> "KeyboardInterrupt", output |-> out]
        ELSE IF outcome = "ok" THEN [ret |-> "true", output |-> written]
        ELSE [ret |-> "Exception", output |-> out]

\* convert_project: the value returned (or the exception that leaves the
\* call) and the output directory afterwards; out maps file names to the
\* document written under that name
convert_project(tree, lck, order, cfg, out, project_path, outcome, now) ==
    LET project_info == analyze_project(tree, lck, order, project_path, now)
        markdown_content == _generate_markdown(tree, lck, order, cfg, project_info)
        file_name == Name(project_info.target_path)
        written == [n \in DOMAIN out \cup {file_name} |->
                       IF n = file_name
                       THEN [source_path |-> project_path,
                             lines |-> markdown_content]
                       ELSE out[n]]
    IN  IF outcome = "interrupt" THEN [ret |-> "KeyboardInterrupt", output |-> out]
        ELSE IF outcome = "ok" THEN [ret |-> "true", output |-> written]
        ELSE [ret |-> "false", output |-> out]

\* sorted(projects, key=lambda p: p.name), a stable sort
RECURSIVE InsertByProjectName(_, _)
InsertByProjectName(sorted, x) ==
    IF sorted = <<>> THEN <<x>>
    ELSE IF StrLess(x.name, Head(sorted).name) THEN <<x>> \o sorted
    ELSE <<Head(sorted)>> \o InsertByProjectName(Tail(sorted), x)

RECURSIVE sort_projects(_, _, _)
sort_projects(infos, i, sorted) ==
    IF i > Len(infos) THEN sorted
    ELSE sort_projects(infos, i + 1, InsertByProjectName(sorted, infos[i]))

\* generate_index that links to the project name as it is
generate_index_RawName(infos) ==
    LET ordered == sort_projects(infos, 1, <<>>)
    IN  [present |-> TRUE,
         count |-> Len(infos),
         links |-> [k \in 1..Len(ordered) |->
                       [text |-> ordered[k].name,
                        target |-> ordered[k].name \o ".md"]]]

\* generate_index: the content of INDEX.md
generate_index(infos) ==
    LET ordered == sort_projects(infos, 1, <<>>)
    IN  [present |-> TRUE,
         count |-> Len(infos),
         links |-> [k \in 1..Len(ordered) |->
                       [text |-> ordered[k].name,
                        target |-> normalize_project_name(ordered[k].name) \o ".md"]]]

NoIndex == [present |-> FALSE, count |-> 0, links |-> <<>>]

CountTrue(rs) == Cardinality({k \in 1..Len(rs) : rs[k] = "true"})

-----------------------------------------------------------------------------
(* The directory trees and configurations the model runs on *)

Dir(path) ==
    [path |-> path, dir |-> TRUE, link |-> FALSE, size |-> 0, text |-> "",
     mtime |-> 0]
Link(path) == [Dir(path) EXCEPT !.link = TRUE]
File(path, size, text, mtime) ==
    [path |-> path, dir |-> FALSE, link |-> FALSE, size |-> size, text |-> text,
     mtime |-> mtime]

\* the trees made of at most n of the given entries
Trees(universe, n) ==
    {S \in SUBSET universe :
        /\ Cardinality(S) <= n
        /\ \A e \in S : Len(e.path) > 1 =>
               \E d \in S : d.dir /\ d.path = Parent(e.path)}

\* what may lie below the input root in a run of main()
RunUniverse ==
    { Dir(<<"Alpha">>),
      File(<<"Alpha", "main.c">>, 12, "int x;", 1),
      Dir(<<"Alpha_20230615">>),
      File(<<"Alpha_20230615", "app.py">>, 7, "pass", 2),
      Dir(<<"batch">>),
      Dir(<<"batch", "Beta">>),
      File(<<"batch", "Beta", "b.json">>, 2, "{}", 3),
      Dir(<<"batch", "build">>),
      File(<<"batch", "build", "gen.c">>, 0, "", 4),
      Dir(<<"node_modules">>),
      File(<<"node_modules", "x.js">>, 5, "1;", 5),
      Dir(<<"docs">>),
      Dir(<<"docs", "v1">>),
      Link(<<"docs", "v1", "latest">>),
      File(<<"docs", "v1", "latest", "lib.c">>, 9, "int y;", 6),
      File(<<"notes.txt">>, 4, "todo", 7) }

DirsOf(tree) == {e.path : e \in {x \in tree : x.dir}}
FilesOf(tree) == {e.path : e \in {x \in tree : ~x.dir}}

\* Config(): the defaults
DefaultConfig ==
    [include_file_content |-> TRUE, include_file_stats |-> TRUE,
     include_project_structure |-> TRUE, max_file_size |-> 1024 * 1024]

\* main.py runs with the defaults, cli.py can switch sections off
RunConfigs ==
    {DefaultConfig, [DefaultConfig EXCEPT !.include_file_content = FALSE]}

NoCall == [op |-> "none"]

-----------------------------------------------------------------------------
(* main(): one run over all projects *)

Init ==
    /\ root_exists \in BOOLEAN
    /\ fs \in (IF root_exists THEN Trees(RunUniverse, MaxEntries) ELSE {{}})
    /\ locked \in {L \in SUBSET DirsOf(fs) : Cardinality(L) <= MaxLocked}
    /\ enum \in {"asc", "desc"}
    /\ config \in RunConfigs
    /\ pc = "start"
    /\ projects = <<>>
    /\ calls = <<>>
    /\ results = <<>>
    /\ success_count = 0
    /\ total_count = 0
    /\ output = <<>>
    /\ index = NoIndex
    /\ abort = "none"
    /\ exit_code = -1
    /\ clock = 0
    /\ fn = NoCall

env == <<fs, locked, enum, root_exists, config, fn>>

\* main: the check that the input root exists
CheckRoot ==
    /\ pc = "start"
    /\ IF root_exists
       THEN pc' = "convert_all" /\ exit_code' = exit_code
       ELSE pc' = "exit" /\ exit_code' = 1
    /\ UNCHANGED <<env, projects, calls, results, success_count, total_count,
                   output, index, abort, clock>>

\* convert_all_projects up to the loop: discovery, the empty case, the counts
Discover ==
    /\ pc = "convert_all"
    /\ LET found == discover_projects(fs, locked, enum)
       IN  IF found.err
           THEN /\ pc' = "exit"
                /\ abort' = "PermissionError"
                /\ exit_code' = 1
                /\ UNCHANGED <<projects, total_count>>
           ELSE /\ projects' = found.val
                /\ total_count' = Len(found.val)
                /\ pc' = IF found.val = <<>> THEN "returned" ELSE "loop"
                /\ UNCHANGED <<abort, exit_code>>
    /\ success_count' = 0
    /\ UNCHANGED <<env, calls, results, output, index, clock>>

\* one iteration of the loop of convert_all_projects, the call of
\* convert_project included; after the last one the function returns
ConvertNext ==
    /\ pc = "loop"
    /\ Len(calls) < Len(projects)
    /\ \E outcome \in Outcomes :
         LET project_path == projects[Len(calls) + 1]
             r == convert_project(fs, locked, enum, config, output,
                                  project_path, outcome, clock)
         IN  /\ calls' = Append(calls, project_path)
             /\ results' = Append(results, r.ret)
             /\ output' = r.output
             /\ IF r.ret \notin {"true", "false"}
                THEN /\ pc' = "exit"
                     /\ abort' = r.ret
                     /\ exit_code' = 1
                     /\ UNCHANGED success_count
                ELSE /\ success_count' =
                            IF r.ret = "true" THEN success_count + 1
                            ELSE success_count
                     /\ pc' = IF Len(calls) + 1 = Len(projects)
                              THEN "returned" ELSE "loop"
                     /\ UNCHANGED <<abort, exit_code>>
    /\ clock' = clock + 1
    /\ UNCHANGED <<env, projects, total_count, index>>

RECURSIVE analyze_all(_, _, _, _, _, _)
analyze_all(tree, lck, order, paths, i, now) ==
    IF i > Len(paths) THEN <<>>
    ELSE <<analyze_project(tree, lck, order, paths[i], now)>>
         \o analyze_all(tree, lck, order, paths, i + 1, now)

\* main after convert_all_projects: the index, the summary, the exit code
Finish ==
    /\ pc = "returned"
    /\ pc' = "exit"
    /\ IF success_count > 0
       THEN \E index_written \in BOOLEAN :
              LET again == discover_projects(fs, locked, enum)
                  infos == analyze_all(fs, locked, enum, again.val, 1, clock)
              IN  IF again.err \/ ~index_written
                  THEN /\ abort' = "OSError"
                       /\ exit_code' = 1
                       /\ UNCHANGED index
                  ELSE /\ index' = generate_index(infos)
                       /\ exit_code' = IF success_count < total_count THEN 1 ELSE 0
                       /\ UNCHANGED abort
       ELSE /\ exit_code' = IF success_count < total_count THEN 1 ELSE 0
            /\ UNCHANGED <<index, abort>>
    /\ clock' = clock + 1
    /\ UNCHANGED <<env, projects, calls, results, success_count, total_count,
                   output>>

\* Ctrl-C between the calls above
Interrupt ==
    /\ pc \in {"convert_all", "returned"}
    /\ pc' = "exit"
    /\ abort' = "KeyboardInterrupt"
    /\ exit_code' = 1
    /\ UNCHANGED <<env, projects, calls, results, success_count, total_count,
                   output, index, clock>>

Next == CheckRoot \/ Discover \/ ConvertNext \/ Finish \/ Interrupt

Spec == Init /\ [][Next]_vars

-----------------------------------------------------------------------------
(* Claims about the run *)

\* C1: convert_all_projects calls convert_project once per discovered path,
\* in discovery order; a project that fails with an exception does not keep
\* the remaining ones from being attempted (only Ctrl-C ends the loop
\* early); on return total_count is the number of discovered projects,
\* success_count the number of calls that returned true, and
\* 0 <= success_count <= total_count.
C1_ConvertAll ==
    /\ Len(calls) <= Len(projects)
    /\ calls = SubSeq(projects, 1, Len(calls))
    /\ Len(results) = Len(calls)
    /\ (pc = "exit" /\ calls # projects) => abort = "KeyboardInterrupt"
    /\ pc = "returned" =>
          /\ calls = projects
          /\ total_count = Len(projects)
          /\ success_count = CountTrue(results)
          /\ 0 <= success_count /\ success_count <= total_count

\* a project failed, a later one was still converted, and the call returned
C1_Witness ==
    /\ pc = "returned"
    /\ \E i, j \in 1..Len(results) :
          i < j /\ results[i] = "false" /\ results[j] = "true"

\* C2: main() returns 0 exactly when at least one project was found and
\* every project was converted; it returns 1 when a project failed, when no
\* project was found, and on user interruption.
C2_ExitCode ==
    pc = "exit" =>
       /\ abort = "none" /\ root_exists =>
             (exit_code = 0 <=> (total_count > 0 /\ success_count = total_count))
       /\ abort = "KeyboardInterrupt" => exit_code = 1

TargetOf(project_path) ==
    analyze_project(fs, locked, enum, project_path, 0).target_path

\* C3: distinct discovered projects have distinct target paths, so that
\* after converting all of them the output directory holds one document per
\* project.
C3_OneDocumentPerProject ==
    /\ \A i, j \in 1..Len(projects) :
          i # j => TargetOf(projects[i]) # TargetOf(projects[j])
    /\ (pc = "returned" /\ success_count = total_count) =>
          Cardinality(DOMAIN output) = Len(projects)

\* the non-ignored directories directly below p
Subdirs(p) ==
    {q \in Children(fs, p) :
        is_dir(fs, q) /\ ~should_ignore_dir(Name(q), ignore_dirs)}

Qualifies(p) == _is_project_directory(fs, locked, enum, p)

SeqToSet(sq) == {sq[k] : k \in 1..Len(sq)}

\* C5: discover_projects returns every non-ignored top-level directory
\* that qualifies and, below the non-ignored top-level directories that do
\* not, every non-ignored child directory that qualifies; so the returned
\* paths lie at depth 1 or 2, none inside another, none twice.
C5_Discovery ==
    pc \in {"loop", "returned"} =>
       /\ SeqToSet(projects) =
             {p \in Subdirs(<<>>) : Qualifies(p)}
             \cup UNION {{q \in Subdirs(p) : Qualifies(q)} :
                            p \in {t \in Subdirs(<<>>) : ~Qualifies(t)}}
       /\ \A k \in 1..Len(projects) : Len(projects[k]) \in {1, 2}
       /\ \A i, j \in 1..Len(projects) :
             i # j => ~IsPrefix(projects[i], projects[j])

\* C6: a permission error while listing or scanning a directory below the
\* existing input root is recovered locally; nothing but a missing input
\* root aborts the run.
C6_ErrorsRecovered ==
    root_exists => abort # "PermissionError"

\* the bullet generate_index owes to the project at path p
BulletOf(p) ==
    LET info == analyze_project(fs, locked, enum, p, 0)
    IN  [text |-> info.name, target |-> Name(info.target_path)]

\* C11: INDEX.md has one bullet per project it was given, ordered by
\* project name; the project count it states is the number of projects;
\* each bullet links to the file name of the project's target_path.
C11_Index ==
    index.present =>
       /\ index.count = Len(projects)
       /\ Len(index.links) = Len(projects)
       /\ \A b \in SeqToSet(index.links) \cup {BulletOf(p) : p \in SeqToSet(projects)} :
             Cardinality({k \in 1..Len(index.links) : index.links[k] = b})
                = Cardinality({i \in 1..Len(projects) : BulletOf(projects[i]) = b})
       /\ \A k \in 1..(Len(index.links) - 1) :
             ~StrLess(index.links[k + 1].text, index.links[k].text)

\* an index of two projects, discovered in the other order, one of them
\* with a date suffix that its link drops
C11_Witness ==
    /\ index.present
    /\ Len(index.links) = 2
    /\ index.links[1].text # BulletOf(projects[1]).text
    /\ \E k \in 1..2 : index.links[k].target # index.links[k].text \o ".md"

\* C14: every link of INDEX.md targets a document written in this run, a
\* project whose conversion failed is not listed, and the index is written
\* whenever a project was converted.
C14_IndexLinksWritten ==
    /\ index.present =>
          /\ \A k \in 1..Len(index.links) : index.links[k].target \in DOMAIN output
          /\ \A i \in 1..Len(results) :
                results[i] = "false" =>
                   \A k \in 1..Len(index.links) :
                      index.links[k].text # BulletOf(calls[i]).text
    /\ (pc = "exit" /\ abort = "none" /\ success_count > 0) => index.present

-----------------------------------------------------------------------------
(* The functions one by one, applied to a directory of a project tree *)

\* what may lie in a project
ProjectUniverse ==
    { File(<<"main.c">>, 1536, "int main;", 1),
      File(<<"B.c">>, 1024, "b\fb", 2),
      File(<<"a.h">>, 999, "#define A", 3),
      File(<<"conf.json">>, 2, "{}", 4),
      File(<<"logo.png">>, 1048577, "PNG", 5),
      File(<<"mod.pyc">>, 3, "pyc", 6),
      Dir(<<"build">>),
      File(<<"build", "gen.c">>, 0, "", 7),
      Dir(<<"Src">>),
      File(<<"Src", "main.c">>, 1, "x", 8),
      File(<<"Src", "X.HPP">>, 1048576, "class X;", 9),
      Dir(<<"Src", "inner">>),
      File(<<"Src", "inner", "deep.py">>, 5, "pass", 10),
      Dir(<<"lib">>),
      File(<<"lib", "main.c">>, 0, "", 11) }

InitFn ==
    /\ root_exists = TRUE
    /\ fs \in Trees(ProjectUniverse, MaxProjectEntries)
    /\ locked = {}
    /\ enum \in {"asc", "desc"}
    /\ config = DefaultConfig
    /\ pc = "unit"
    /\ projects = <<>>
    /\ calls = <<>>
    /\ results = <<>>
    /\ success_count = 0
    /\ total_count = 0
    /\ output = <<>>
    /\ index = NoIndex
    /\ abort = "none"
    /\ exit_code = -1
    /\ clock = 0
    /\ fn = NoCall

run == <<root_exists, pc, projects, calls, results, success_count, total_count,
         output, index, abort, exit_code, clock>>

AnyDir == DirsOf(fs) \cup {<<>>}

ApplyIsProject ==
    /\ fn = NoCall
    /\ \E p \in AnyDir :
         fn' = [op |-> "is_project", path |-> p,
                ret |-> _is_project_directory(fs, locked, enum, p)]
    /\ UNCHANGED <<fs, locked, enum, config, run>>

ApplyAnalyze ==
    /\ fn = NoCall
    /\ \E p \in AnyDir :
         fn' = [op |-> "analyze", path |-> p,
                info |-> analyze_project(fs, locked, enum, p, clock)]
    /\ UNCHANGED <<fs, locked, enum, config, run>>

ApplyTree ==
    /\ fn = NoCall
    /\ \E p \in AnyDir, max_depth \in 0..MaxDepth :
         fn' = [op |-> "tree", path |-> p, max_depth |-> max_depth,
                lines |-> generate_tree_structure(fs, locked, enum, p,
                                                  max_depth, 0)]
    /\ UNCHANGED <<fs, locked, enum, config, run>>

ApplySections ==
    /\ fn = NoCall
    /\ \E p \in AnyDir :
         fn' = [op |-> "sections", path |-> p,
                files |-> section_files(fs, locked, enum, p),
                lines |-> _generate_file_sections(fs, locked, enum, config, p)]
    /\ UNCHANGED <<fs, locked, enum, config, run>>

NextFn == ApplyIsProject \/ ApplyAnalyze \/ ApplyTree \/ ApplySections

SpecFn == InitFn /\ [][NextFn]_vars

-----------------------------------------------------------------------------
(* Claims about the functions *)

\* the files below directory p
FilesBelow(p) == {f \in FilesOf(fs) : IsPrefix(p, f) /\ Len(f) > Len(p)}

\* q lies in a subtree of p rooted at a directory with an ignored name
UnderIgnoredDir(p, q) ==
    \E k \in (Len(p) + 1)..(Len(q) - 1) : q[k] \in ignore_dirs

ExtOf(f) == lower(suffix(Name(f)))

\* C4: _is_project_directory(path) is true iff path contains, at any depth
\* and outside the subtrees of ignored directories, a file whose lower-cased
\* extension is a code or a project extension.
C4_IsProject ==
    fn.op = "is_project" =>
       (fn.ret <=>
           \E f \in FilesBelow(fn.path) :
              /\ ExtOf(f) \in code_extensions \cup project_extensions
              /\ ~UnderIgnoredDir(fn.path, f))

\* the files analyze_project retains: no ignored-file pattern matches
Retained(p) ==
    {f \in FilesBelow(p) : \A pat \in ignore_files : ~fnmatch(Name(f), pat)}

RECURSIVE SumOfSizes(_)
SumOfSizes(S) ==
    IF S = {} THEN 0
    ELSE LET f == CHOOSE x \in S : TRUE
         IN  Entry(fs, f).size + SumOfSizes(S \ {f})

\* C7: analyze_project counts every retained file in exactly one bucket:
\* header for a code extension among .h/.hpp/.hh, code for the other code
\* extensions, project for a project extension, other for the rest; ignored
\* files count nowhere, and total_size is the sum of the retained sizes.
C7_Buckets ==
    fn.op = "analyze" =>
       LET R == Retained(fn.path)
           st == fn.info.stats
       IN  /\ st.header_files = Cardinality({f \in R :
                  ExtOf(f) \in code_extensions /\ ExtOf(f) \in {".h", ".hpp", ".hh"}})
           /\ st.code_files = Cardinality({f \in R :
                  ExtOf(f) \in code_extensions /\ ExtOf(f) \notin {".h", ".hpp", ".hh"}})
           /\ st.project_files = Cardinality({f \in R :
                  ExtOf(f) \notin code_extensions /\ ExtOf(f) \in project_extensions})
           /\ st.other_files = Cardinality({f \in R :
                  ExtOf(f) \notin code_extensions \cup project_extensions})
           /\ st.code_files + st.header_files + st.project_files + st.other_files
                 = Cardinality(R)
           /\ st.total_size = SumOfSizes(R)

\* the example: 2 .c, 1 .h, 1 .json and 1 .png give 2/1/1/1
C7_Witness ==
    /\ fn.op = "analyze"
    /\ Paths(fs) = {<<"main.c">>, <<"B.c">>, <<"a.h">>, <<"conf.json">>, <<"logo.png">>}
    /\ fn.info.stats.code_files = 2
    /\ fn.info.stats.header_files = 1
    /\ fn.info.stats.project_files = 1
    /\ fn.info.stats.other_files = 1

\* C8: a file inside an ignored directory is counted in no statistic and
\* gets no subsection, as it is absent from the tree.
C8_IgnoreConsistent ==
    /\ fn.op = "analyze" =>
          LET st == fn.info.stats
          IN  st.code_files + st.header_files + st.project_files + st.other_files
                 = Cardinality({f \in Retained(fn.path) :
                                   ~UnderIgnoredDir(fn.path, f)})
    /\ fn.op = "sections" =>
          \A k \in 1..Len(fn.files) : ~UnderIgnoredDir(fn.path, fn.files[k])

-----------------------------------------------------------------------------
(* C10: the shape of the rendered tree, read off the lines alone *)

Last(sq) == sq[Len(sq)]
IsMarkerLine(line) == Last(line) \in {TruncatedMarker, InaccessibleMarker}

\* the child prefixes in front of the connector or the marker
PrefixesOf(line) ==
    SubSeq(line, 1, IF IsMarkerLine(line) THEN Len(line) - 1 ELSE Len(line) - 2)
LevelOf(line) == Len(PrefixesOf(line))
ConnOf(line) == line[Len(line) - 1]
IsDirLine(line) ==
    ~IsMarkerLine(line) /\ CharAt(Last(line), Len(Last(line))) = "/"
NameOf(line) ==
    IF IsDirLine(line) THEN SubSeq(Last(line), 1, Len(Last(line)) - 1)
    ELSE Last(line)

\* the line of the directory that encloses line i, 0 at the top level
ParentLine(L, i) ==
    IF LevelOf(L[i]) = 0 THEN 0
    ELSE LET above == {j \in 1..(i - 1) :
                          ~IsMarkerLine(L[j]) /\ LevelOf(L[j]) = LevelOf(L[i]) - 1}
         IN  IF above = {} THEN -1
             ELSE CHOOSE j \in above : \A k \in above : k <= j

RECURSIVE PathOfLine(_, _, _)
PathOfLine(L, root, i) ==
    IF i <= 0 THEN root
    ELSE PathOfLine(L, root, ParentLine(L, i)) \o <<NameOf(L[i])>>

\* what a tree of root p cut at max_depth has to show
Shown(p, max_depth) ==
    {q \in Paths(fs) :
        /\ IsPrefix(p, q) /\ Len(q) > Len(p)
        /\ Len(q) - Len(p) <= max_depth
        /\ ~UnderIgnoredDir(p, q)
        /\ IF is_dir(fs, q) THEN Name(q) \notin ignore_dirs
           ELSE \A pat \in ignore_files : ~fnmatch(Name(q), pat)}

TreeShape(L, root, max_depth) ==
    LET entries == {i \in 1..Len(L) : ~IsMarkerLine(L[i])}
        markers == {i \in 1..Len(L) : IsMarkerLine(L[i])}
        siblings(i, j) == ParentLine(L, i) = ParentLine(L, j)
    IN  \* every line hangs below a directory line
        /\ \A i \in 1..Len(L) :
              ParentLine(L, i) >= 0
              /\ (ParentLine(L, i) > 0 => IsDirLine(L[ParentLine(L, i)]))
        \* each non-ignored entry within the depth cap is listed once
        /\ {PathOfLine(L, root, i) : i \in entries} = Shown(root, max_depth)
        /\ Cardinality(entries) = Cardinality(Shown(root, max_depth))
        \* directories, and only they, carry the '/'
        /\ \A i \in entries : IsDirLine(L[i]) <=> is_dir(fs, PathOfLine(L, root, i))
        \* directories first, each group in case-insensitive name order
        /\ \A i, j \in entries :
              (i < j /\ siblings(i, j)) =>
                 /\ ~(~IsDirLine(L[i]) /\ IsDirLine(L[j]))
                 /\ IsDirLine(L[i]) = IsDirLine(L[j]) =>
                       ~StrLess(lower(NameOf(L[j])), lower(NameOf(L[i])))
        \* the last entry of a level, and no other, has the closing connector
        /\ \A i \in entries :
              ConnOf(L[i]) =
                 IF \E j \in entries : i < j /\ siblings(i, j)
                 THEN ConnMid ELSE ConnLast
        \* children are indented by their directory's continuation prefix
        /\ \A i \in 1..Len(L) :
              ParentLine(L, i) > 0 =>
                 LET d == L[ParentLine(L, i)]
                 IN  PrefixesOf(L[i]) =
                        Append(PrefixesOf(d),
                               IF ConnOf(d) = ConnLast THEN PrefixLast ELSE PrefixMid)
        \* a directory at depth max_depth shows the truncation marker, alone
        /\ \A i \in entries :
              (IsDirLine(L[i]) /\ LevelOf(L[i]) + 1 = max_depth) =>
                 /\ i + 1 \in markers
                 /\ Last(L[i + 1]) = TruncatedMarker
                 /\ ParentLine(L, i + 1) = i
                 /\ \A j \in 1..Len(L) : ParentLine(L, j) = i => j = i + 1
        /\ \A j \in markers :
              /\ Last(L[j]) = TruncatedMarker
              /\ ParentLine(L, j) = j - 1
              /\ LevelOf(L[j]) = max_depth

\* C10: at every level the non-ignored directories come before the
\* non-ignored files, each group in case-insensitive alphabetical order;
\* the last entry of a level has the closing connector and every other one
\* the middle connector; directories end in '/'; the lines below a
\* directory are prefixed by four spaces if it is the last entry of its
\* level and by the bar otherwise; a directory at depth max_depth
\* contributes the truncation marker instead of its contents.
C10_TreeShape ==
    fn.op = "tree" =>
       IF fn.max_depth = 0 THEN fn.lines = << <<TruncatedMarker>> >>
       ELSE TreeShape(fn.lines, fn.path, fn.max_depth)

\* a tree with a truncated directory, a directory listed before a file, and
\* two neighbours whose order differs from the code point order
C10_Witness ==
    /\ fn.op = "tree"
    /\ fn.max_depth > 0
    /\ \E i \in 1..Len(fn.lines) : IsMarkerLine(fn.lines[i])
    /\ \E i, j \in 1..Len(fn.lines) :
          /\ i < j
          /\ IsDirLine(fn.lines[i])
          /\ ~IsMarkerLine(fn.lines[j]) /\ ~IsDirLine(fn.lines[j])
          /\ LevelOf(fn.lines[i]) = LevelOf(fn.lines[j])
    /\ \E i, j \in 1..Len(fn.lines) :
          /\ i < j
          /\ ~IsMarkerLine(fn.lines[i]) /\ ~IsMarkerLine(fn.lines[j])
          /\ ParentLine(fn.lines, i) = ParentLine(fn.lines, j)
          /\ IsDirLine(fn.lines[i]) = IsDirLine(fn.lines[j])
          /\ StrLess(NameOf(fn.lines[j]), NameOf(fn.lines[i]))

-----------------------------------------------------------------------------
(* C12, C13: the documents of convert_project and their File Contents part *)

OtherOrder == IF enum = "asc" THEN "desc" ELSE "asc"

\* the lines convert_project writes for the project at path p when the
\* file system enumerates in the given order and the clock shows now,
\* with the value of the timestamp line blanked
DocumentOf(order, p, now) ==
    LET done == convert_project(fs, locked, order, config, <<>>, p, "ok", now)
        name == CHOOSE n \in DOMAIN done.output : TRUE
    IN  [done.output[name].lines EXCEPT ![5] = "- **Generated**: "]

\* C12: two conversions of the same tree under the same configuration write
\* the same document apart from the timestamp, whatever the order in which
\* the file system enumerates directory entries; so the order of the File
\* Contents subsections is a function of the tree alone.
C12_Deterministic ==
    fn.op = "sections" =>
       /\ DocumentOf(enum, fn.path, 0) = DocumentOf(OtherOrder, fn.path, 1)
       /\ fn.files = section_files(fs, locked, OtherOrder, fn.path)

\* a file of the project at p that matches no ignore-file pattern and has
\* a code extension
CodeFilesOf(p) == {f \in Retained(p) : ExtOf(f) \in code_extensions}

\* the positions of the subsection headings in the File Contents lines
HeadingsOf(lines) == {i \in 1..Len(lines) : startswith(lines[i], "## ")}

\* the lines of the k-th subsection
SubsectionOf(lines, k) ==
    LET H == HeadingsOf(lines)
        first == CHOOSE i \in H : Cardinality({j \in H : j < i}) = k - 1
        after == {j \in H : j > first}
        last == IF after = {} THEN Len(lines)
                ELSE (CHOOSE j \in after : \A x \in after : j <= x) - 1
    IN  SubSeq(lines, first, last)

\* C13: with the content flag set, the File Contents part has exactly one
\* subsection for every non-ignored file with a code extension and for no
\* other file, in case-insensitive order of file name, and every subsection
\* holds a fenced block tagged with the language label around the reader's
\* output, the empty string of an empty file included.
C13_Subsections ==
    (fn.op = "sections" /\ config.include_file_content) =>
       /\ SeqToSet(fn.files) = CodeFilesOf(fn.path)
       /\ Len(fn.files) = Cardinality(CodeFilesOf(fn.path))
       /\ Cardinality(HeadingsOf(fn.lines)) = Len(fn.files)
       /\ \A k \in 1..(Len(fn.files) - 1) :
             ~StrLess(lower(Name(fn.files[k + 1])), lower(Name(fn.files[k])))
       /\ \A k \in 1..Len(fn.files) :
             LET part == SubsectionOf(fn.lines, k)
                 f == fn.files[k]
                 language == get_language_for_extension(suffix(Name(f)))
                 content == read_file_safely(FileView(fs, locked, f),
                                             config.max_file_size).ret
             IN  /\ part[1] = "## " \o Name(f)
                 /\ \E i \in 1..(Len(part) - 2) :
                       /\ part[i] = "^^^" \o language
                       /\ part[i + 1] = content
                       /\ part[i + 2] = "^^^"

-----------------------------------------------------------------------------
(* read_file_safely on one file *)

\* the max_size values tried
ReadLimits == {0, 2, 1024, 1024 * 1024}

InitRead ==
    /\ root_exists = TRUE
    /\ fs \in {{e} : e \in {x \in ProjectUniverse : ~x.dir}}
    /\ locked = {}
    /\ enum \in {"asc", "desc"}
    /\ config = DefaultConfig
    /\ pc = "unit"
    /\ projects = <<>>
    /\ calls = <<>>
    /\ results = <<>>
    /\ success_count = 0
    /\ total_count = 0
    /\ output = <<>>
    /\ index = NoIndex
    /\ abort = "none"
    /\ exit_code = -1
    /\ clock = 0
    /\ fn = NoCall

\* The OS side of the call is free: stat() and open() may fail and the
\* bytes may decode under any of the encodings or under none.  A path whose
\* stat() fails cannot be opened either.
ApplyRead ==
    /\ fn = NoCall
    /\ \E e \in fs, max_size \in ReadLimits, stat_ok \in BOOLEAN,
          open_ok \in BOOLEAN, enc \in 1..(Len(encodings) + 1) :
         /\ ~stat_ok => ~open_ok
         /\ LET f == [size |-> e.size, stat_ok |-> stat_ok, open_ok |-> open_ok,
                      enc |-> enc, text |-> e.text]
            IN  fn' = [op |-> "read", file |-> f, max_size |-> max_size,
                       out |-> read_file_safely(f, max_size)]
    /\ UNCHANGED <<fs, locked, enum, config, run>>

NextRead == ApplyRead

SpecRead == InitRead /\ [][NextRead]_vars

Contains(str, part) ==
    \E i \in 1..(Len(str) - Len(part) + 1) :
       SubSeq(str, i, i + Len(part) - 1) = part

\* C9: read_file_safely does not open a file whose size exceeds max_size
\* and returns the placeholder with the 'too large' marker and the formatted
\* size; a file of at most max_size bytes (max_size itself included) is
\* opened; whatever the OS does, a string is returned and nothing raised.
\* (The size is the one stat() reports.)
C9_ReadSafely ==
    fn.op = "read" =>
       LET f == fn.file
           o == fn.out
       IN  /\ ~o.raised
           /\ (f.stat_ok /\ f.size > fn.max_size) =>
                 /\ o.opens = 0
                 /\ Contains(o.ret, "too large")
                 /\ Contains(o.ret, format_file_size(f.size))
           /\ (f.stat_ok /\ f.size <= fn.max_size) => o.opens >= 1

\* a file of exactly max_size bytes whose open() fails
C9_Witness ==
    /\ fn.op = "read"
    /\ fn.file.stat_ok /\ ~fn.file.open_ok
    /\ fn.file.size = fn.max_size
    /\ fn.out.opens = 1
    /\ ~fn.out.raised

====
